---- MODULE Spec2Model ----
(***************************************************************************)
(* In-memory classifieds backend: the user store (app/users_storage.py),   *)
(* the advertisement store (app/storage.py), the token store (app/auth.py) *)
(* and the request handlers that consume them (app/main.py).               *)
(*                                                                         *)
(* Python values: strings are TLA+ strings, Chars gives their characters;  *)
(* None is the string "None" (no field domain contains it) and, for the    *)
(* numeric price field, NonePrice.  A dict that keeps insertion order is a *)
(* sequence of records.  uuid4() and secrets.token_urlsafe() are counters: *)
(* a fresh value every call.                                               *)
(***************************************************************************)
EXTENDS Integers, Sequences, FiniteSets, TLC

VARIABLES
    users,        \* users_storage._users, in insertion order
    nextUserId,   \* the next uuid4() of users_storage.create
    ads,          \* storage._advertisements, in insertion order
    nextAdId,     \* the next uuid4() of storage.create
    tokens,       \* auth._tokens: set of [token, user_id, expires_at]
    nextToken,    \* the next secrets.token_urlsafe(32)
    now,          \* datetime.now(timezone.utc), in hours
    goneUsers,    \* ids users_storage.delete has removed (history)
    goneAds,      \* ids storage.delete has removed (history)
    issued,       \* per token ever issued: when, to which user id, under
                  \* which username (history)
    last,         \* the last call: its name and outcome (history)
    pc,           \* per request thread: where its handler stands
    frame         \* per request thread: the handler's local variables

vars == <<users, nextUserId, ads, nextAdId, tokens, nextToken, now,
          goneUsers, goneAds, issued, last, pc, frame>>

----------------------------------------------------------------------------
\* Bounds of the model
MaxUsers == 2
MaxAds == 1
MaxTokens == 2
MaxTime == 96

\* Program constants
TOKEN_TTL_HOURS == 48
NonePrice == -1

None == "None"

----------------------------------------------------------------------------
\* Input domains
Usernames == {"al", "Bo"}
Passwords == {"pw"}
Groups == {"user", "admin"}

UserFields == {"username", "password", "group"}

\* dict.get(key): the value, or None when the key is absent
DictGet(d, k) == IF k \in DOMAIN d THEN d[k] ELSE None

\* dict.update(other): other's keys replace, the rest stay
DictUpdate(d, other) ==
    [k \in DOMAIN d |-> IF k \in DOMAIN other THEN other[k] ELSE d[k]]

\* bool(x) of a str-or-None value
Truthy(x) == x # None /\ x # ""

Restrict(f, S) == [k \in S |-> f[k]]

\* UserCreate: username and password of min_length 1, group a Literal
UserCreates == [username : Usernames, password : Passwords, group : Groups]

\* UserUpdate after model_dump(exclude_unset=True): the fields the request
\* set, each a valid value or an explicit null
UserUpdates ==
    { Restrict(full, S) :
        full \in [username : Usernames \cup {None},
                  password : Passwords \cup {None},
                  group : Groups \cup {None}],
        S \in SUBSET UserFields }

----------------------------------------------------------------------------
\* Outcomes of a call
Ok(v) == [kind |-> "ok", value |-> v]
Absent == [kind |-> "None"]
Raised(e) == [kind |-> e]

Index(store, id) ==
    IF \E i \in 1..Len(store) : store[i].id = id
    THEN CHOOSE i \in 1..Len(store) : store[i].id = id
    ELSE 0

Live(store, id) == Index(store, id) # 0

Remove(store, id) ==
    SelectSeq(store, LAMBDA r : r.id # id)

\* UserResponse(...): pydantic validates username: str and group: Literal
UserResponseValid(record) ==
    record.username # None /\ record.group \in {"user", "admin"}

ToResponse(record) ==
    IF UserResponseValid(record)
    THEN Ok([id |-> record.id, username |-> record.username,
             group |-> record.group, created_at |-> record.created_at])
    ELSE Raised("ValidationError")

UsernameTaken(store, username) ==
    \E i \in 1..Len(store) : store[i].username = username

\* users_storage.create: [store, result]
UsersCreate(store, id, user, t) ==
    IF UsernameTaken(store, user.username)
    THEN [store |-> store, result |-> Raised("ValueError")]
    ELSE LET record == [id |-> id, username |-> user.username,
                        password |-> user.password, group |-> user.group,
                        created_at |-> t]
         IN [store |-> Append(store, record), result |-> ToResponse(record)]

\* A faulty lookup: an id that is not live falls back to the oldest record
UsersGetByIdOrOldest(store, id) ==
    IF Live(store, id) THEN ToResponse(store[Index(store, id)])
    ELSE IF store # <<>> THEN ToResponse(store[1]) ELSE Absent

\* users_storage.get_by_id
UsersGetById(store, id) ==
    IF Live(store, id) THEN ToResponse(store[Index(store, id)]) ELSE Absent

\* list.sort(key=created_at): stable, oldest first
RECURSIVE SortOldestFirst(_)
SortOldestFirst(seq) ==
    IF seq = <<>> THEN <<>>
    ELSE LET n == Len(seq)
             sorted == SortOldestFirst(SubSeq(seq, 1, n - 1))
             x == seq[n]
             k == Cardinality({i \in 1..(n - 1) :
                                 sorted[i].created_at <= x.created_at})
         IN SubSeq(sorted, 1, k) \o <<x>> \o SubSeq(sorted, k + 1, n - 1)

\* users_storage.list_users
UsersList(store) ==
    IF \E i \in 1..Len(store) : ~UserResponseValid(store[i])
    THEN Raised("ValidationError")
    ELSE Ok(SortOldestFirst([i \in 1..Len(store) |->
                                ToResponse(store[i]).value]))

UsernameTakenByOther(store, id, username) ==
    \E i \in 1..Len(store) :
        store[i].username = username /\ store[i].id # id

UpdateCollides(store, id, data) ==
    LET record == store[Index(store, id)]
        new_username == DictGet(data, "username")
    IN /\ Truthy(new_username)
       /\ new_username # record.username
       /\ UsernameTakenByOther(store, id, new_username)

\* A faulty update: the payload is written before the collision is detected
UsersUpdateWriteFirst(store, id, data) ==
    IF ~Live(store, id)
    THEN [store |-> store, result |-> Absent]
    ELSE LET i == Index(store, id)
             record == DictUpdate(store[i], data)
         IN IF UpdateCollides(store, id, data)
            THEN [store |-> [store EXCEPT ![i] = record],
                  result |-> Raised("ValueError")]
            ELSE [store |-> [store EXCEPT ![i] = record],
                  result |-> ToResponse(record)]

\* A faulty update: partial-with-implicit-null, the fields the payload
\* leaves out are reset to None
UsersUpdateNullsUnset(store, id, data) ==
    IF ~Live(store, id)
    THEN [store |-> store, result |-> Absent]
    ELSE IF UpdateCollides(store, id, data)
    THEN [store |-> store, result |-> Raised("ValueError")]
    ELSE LET i == Index(store, id)
             record == [k \in DOMAIN store[i] |->
                          IF k \in DOMAIN data THEN data[k]
                          ELSE IF k \in UserFields THEN None
                          ELSE store[i][k]]
         IN [store |-> [store EXCEPT ![i] = record],
             result |-> ToResponse(record)]

\* users_storage.update: [store, result]
UsersUpdate(store, id, data) ==
    IF ~Live(store, id)
    THEN [store |-> store, result |-> Absent]
    ELSE IF UpdateCollides(store, id, data)
    THEN [store |-> store, result |-> Raised("ValueError")]
    ELSE LET i == Index(store, id)
             record == DictUpdate(store[i], data)
         IN [store |-> [store EXCEPT ![i] = record],
             result |-> ToResponse(record)]

\* A faulty delete: reports success and removes nothing
UsersDeleteKeeps(store, id) ==
    IF Live(store, id)
    THEN [store |-> store, result |-> TRUE]
    ELSE [store |-> store, result |-> FALSE]

\* users_storage.delete: [store, result]
UsersDelete(store, id) ==
    IF Live(store, id)
    THEN [store |-> Remove(store, id), result |-> TRUE]
    ELSE [store |-> store, result |-> FALSE]

----------------------------------------------------------------------------
Threads == {"t1", "t2"}

Idle == [at |-> "idle"]

Init ==
    /\ users = <<>>
    /\ nextUserId = 1
    /\ ads = <<>>
    /\ nextAdId = 1
    /\ tokens = {}
    /\ nextToken = 1
    /\ now = 0
    /\ goneUsers = {}
    /\ goneAds = {}
    /\ issued = <<>>
    /\ last = [op |-> "init"]
    /\ pc = [t \in Threads |-> "idle"]
    /\ frame = [t \in Threads |-> Idle]

\* The clock moves on by dt hours
Tick(dt) ==
    /\ dt > 0
    /\ now + dt <= MaxTime
    /\ now' = now + dt
    /\ UNCHANGED <<users, nextUserId, ads, nextAdId, tokens, nextToken,
                   goneUsers, goneAds, issued, last, pc, frame>>

----------------------------------------------------------------------------
\* The user store called directly, one call at a time

notUsers == <<ads, nextAdId, tokens, nextToken, goneAds, issued, pc, frame>>

CallUsersCreate(user) ==
    /\ nextUserId <= MaxUsers
    /\ LET r == UsersCreate(users, nextUserId, user, now)
       IN /\ users' = r.store
          /\ nextUserId' = IF r.result.kind = "ValueError"
                           THEN nextUserId ELSE nextUserId + 1
          /\ last' = [op |-> "users.create", result |-> r.result.kind]
    /\ UNCHANGED <<now, goneUsers>>
    /\ UNCHANGED notUsers

CallUsersUpdate(id, data) ==
    /\ LET r == UsersUpdate(users, id, data)
       IN /\ users' = r.store
          /\ last' = [op |-> "users.update", result |-> r.result.kind]
    /\ UNCHANGED <<nextUserId, now, goneUsers>>
    /\ UNCHANGED notUsers

CallUsersDelete(id) ==
    /\ LET r == UsersDelete(users, id)
       IN /\ users' = r.store
          /\ goneUsers' = IF r.result THEN goneUsers \cup {id} ELSE goneUsers
          /\ last' = [op |-> "users.delete",
                      result |-> IF r.result THEN "True" ELSE "False"]
    /\ UNCHANGED <<nextUserId, now>>
    /\ UNCHANGED notUsers

UserIds == 1..MaxUsers

NextUsers ==
    \/ Tick(MaxTime)
    \/ \E user \in UserCreates : CallUsersCreate(user)
    \/ \E id \in UserIds, data \in UserUpdates : CallUsersUpdate(id, data)
    \/ \E id \in UserIds : CallUsersDelete(id)

SpecUsers == Init /\ [][NextUsers]_vars

----------------------------------------------------------------------------
\* C1: after any sequence of create, update and delete calls on the user
\* store, no two live user records hold the same username value.
UniqueUsernames ==
    \A i, j \in 1..Len(users) :
        i # j => users[i].username # users[j].username

----------------------------------------------------------------------------
\* The advertisement store (app/storage.py)

Titles == {"Bike"}
Descriptions == {"old"}
Prices == {1, 2}
Authors == Usernames

AdFields == {"title", "description", "price", "author"}

\* AdvertisementCreate: title and author of min_length 1, price >= 0
AdCreates ==
    [title : Titles, description : Descriptions, price : Prices,
     author : Authors]

\* AdvertisementUpdate after model_dump(exclude_unset=True)
AdUpdates ==
    { Restrict(full, S) :
        full \in [title : Titles \cup {None},
                  description : Descriptions \cup {None},
                  price : Prices \cup {NonePrice},
                  author : Authors \cup {None}],
        S \in SUBSET AdFields }

\* AdvertisementResponse(**record): pydantic validates every field
AdResponseValid(record) ==
    /\ record.title # None /\ record.title # ""
    /\ record.description # None
    /\ record.price # NonePrice /\ record.price >= 0
    /\ record.author # None /\ record.author # ""

AdResponse(record) ==
    IF AdResponseValid(record) THEN Ok(record) ELSE Raised("ValidationError")

\* storage.create: [store, result]
AdsCreate(store, id, ad, t) ==
    LET record == [id |-> id, title |-> ad.title,
                   description |-> ad.description, price |-> ad.price,
                   author |-> ad.author, created_at |-> t]
    IN [store |-> Append(store, record), result |-> AdResponse(record)]

\* storage.get_by_id
AdsGetById(store, id) ==
    IF Live(store, id) THEN AdResponse(store[Index(store, id)]) ELSE Absent

\* storage.update: [store, result]
AdsUpdate(store, id, data) ==
    IF ~Live(store, id)
    THEN [store |-> store, result |-> Absent]
    ELSE LET i == Index(store, id)
             record == DictUpdate(store[i], data)
         IN [store |-> [store EXCEPT ![i] = record],
             result |-> AdResponse(record)]

\* storage.delete: [store, result]
AdsDelete(store, id) ==
    IF Live(store, id)
    THEN [store |-> Remove(store, id), result |-> TRUE]
    ELSE [store |-> store, result |-> FALSE]

\* The characters of the strings the model uses
Chars(s) ==
    CASE s = "" -> <<>>
      [] s = "x" -> <<"x">>
      [] s = "B" -> <<"B">>
      [] s = "al" -> <<"a", "l">>
      [] s = "AL" -> <<"A", "L">>
      [] s = "Bo" -> <<"B", "o">>
      [] s = "old" -> <<"o", "l", "d">>
      [] s = "OLD" -> <<"O", "L", "D">>
      [] s = "bIK" -> <<"b", "I", "K">>
      [] s = "Bike" -> <<"B", "i", "k", "e">>

LowerChar(c) ==
    CASE c = "A" -> "a" [] c = "B" -> "b" [] c = "D" -> "d"
      [] c = "I" -> "i" [] c = "K" -> "k" [] c = "L" -> "l"
      [] c = "O" -> "o" [] OTHER -> c

\* str.lower()
StrLower(s) == [i \in 1..Len(Chars(s)) |-> LowerChar(Chars(s)[i])]

\* needle in hay, on character sequences
In(needle, hay) ==
    \E i \in 0..(Len(hay) - Len(needle)) :
        \A j \in 1..Len(needle) : hay[i + j] = needle[j]

TitleFilters == {None, "bIK", "x"}
DescriptionFilters == {None, "", "OLD"}
PriceFilters == {NonePrice, 1, 2}
AuthorFilters == {None, "AL", "B"}

\* The query parameters of a search; None and NonePrice: not supplied
Filters ==
    [title : TitleFilters, description : DescriptionFilters,
     price_min : PriceFilters, price_max : PriceFilters,
     author : AuthorFilters]

\* One turn of search's loop: the record is skipped, kept, or an exception
\* is raised (None.lower(), None < float, or an invalid response)
SearchRecord(record, f) ==
    IF f.title # None /\ record.title = None THEN "raise"
    ELSE IF f.title # None
            /\ ~In(StrLower(f.title), StrLower(record.title)) THEN "skip"
    ELSE IF f.description # None /\ record.description = None THEN "raise"
    ELSE IF f.description # None
            /\ ~In(StrLower(f.description), StrLower(record.description))
         THEN "skip"
    ELSE IF f.price_min # NonePrice /\ record.price = NonePrice THEN "raise"
    ELSE IF f.price_min # NonePrice /\ record.price < f.price_min THEN "skip"
    ELSE IF f.price_max # NonePrice /\ record.price = NonePrice THEN "raise"
    ELSE IF f.price_max # NonePrice /\ record.price > f.price_max THEN "skip"
    ELSE IF f.author # None /\ record.author = None THEN "raise"
    ELSE IF f.author # None
            /\ ~In(StrLower(f.author), StrLower(record.author)) THEN "skip"
    ELSE IF AdResponseValid(record) THEN "keep"
    ELSE "raise"

\* list.sort(key=created_at, reverse=True): stable, latest first
RECURSIVE SortLatestFirst(_)
SortLatestFirst(seq) ==
    IF seq = <<>> THEN <<>>
    ELSE LET n == Len(seq)
             sorted == SortLatestFirst(SubSeq(seq, 1, n - 1))
             x == seq[n]
             k == Cardinality({i \in 1..(n - 1) :
                                 sorted[i].created_at >= x.created_at})
         IN SubSeq(sorted, 1, k) \o <<x>> \o SubSeq(sorted, k + 1, n - 1)

\* storage.search
AdsSearch(store, f) ==
    IF \E i \in 1..Len(store) : SearchRecord(store[i], f) = "raise"
    THEN Raised("Error")
    ELSE Ok(SortLatestFirst(
            SelectSeq(store, LAMBDA r : SearchRecord(r, f) = "keep")))

notAds == <<users, nextUserId, tokens, nextToken, goneUsers, issued, pc, frame>>

CallAdsCreate(ad) ==
    /\ nextAdId <= MaxAds
    /\ LET r == AdsCreate(ads, nextAdId, ad, now)
       IN /\ ads' = r.store
          /\ nextAdId' = nextAdId + 1
          /\ last' = [op |-> "ads.create", result |-> r.result.kind]
    /\ UNCHANGED <<now, goneAds>>
    /\ UNCHANGED notAds

CallAdsUpdate(id, data) ==
    /\ LET r == AdsUpdate(ads, id, data)
       IN /\ ads' = r.store
          /\ last' = [op |-> "ads.update", result |-> r.result.kind]
    /\ UNCHANGED <<nextAdId, now, goneAds>>
    /\ UNCHANGED notAds

CallAdsDelete(id) ==
    /\ LET r == AdsDelete(ads, id)
       IN /\ ads' = r.store
          /\ goneAds' = IF r.result THEN goneAds \cup {id} ELSE goneAds
          /\ last' = [op |-> "ads.delete",
                      result |-> IF r.result THEN "True" ELSE "False"]
    /\ UNCHANGED <<nextAdId, now>>
    /\ UNCHANGED notAds

CallAdsSearch(f) ==
    /\ last' = [op |-> "ads.search", result |-> AdsSearch(ads, f).kind]
    /\ UNCHANGED <<ads, nextAdId, now, goneAds>>
    /\ UNCHANGED notAds

AdIds == 1..MaxAds

NextAds ==
    \/ Tick(MaxTime)
    \/ \E ad \in AdCreates : CallAdsCreate(ad)
    \/ \E id \in AdIds, data \in AdUpdates : CallAdsUpdate(id, data)
    \/ \E id \in AdIds : CallAdsDelete(id)
    \/ \E f \in Filters : CallAdsSearch(f)

SpecAds == Init /\ [][NextAds]_vars

\* A record passes a str filter: case-insensitive containment
Contains(filter, field) ==
    field # None /\ In(StrLower(filter), StrLower(field))

\* A record satisfies every supplied filter
Satisfies(record, f) ==
    /\ f.title # None => Contains(f.title, record.title)
    /\ f.description # None => Contains(f.description, record.description)
    /\ f.price_min # NonePrice =>
        (record.price # NonePrice /\ record.price >= f.price_min)
    /\ f.price_max # NonePrice =>
        (record.price # NonePrice /\ record.price <= f.price_max)
    /\ f.author # None => Contains(f.author, record.author)

NoFilter ==
    [title |-> None, description |-> None, price_min |-> NonePrice,
     price_max |-> NonePrice, author |-> None]

SearchMeets(store, f) ==
    LET r == AdsSearch(store, f)
    IN /\ r.kind = "ok"
       /\ \A i \in 1..Len(store) :
            (\E j \in 1..Len(r.value) : r.value[j] = store[i])
                <=> Satisfies(store[i], f)
       /\ f = NoFilter =>
            \A i \in 1..Len(store) :
                Cardinality({j \in 1..Len(r.value) :
                               r.value[j].id = store[i].id}) = 1

\* C6: for every store content and every combination of filters, search
\* returns an advertisement if and only if it satisfies every supplied
\* filter, and with no filter it returns every live advertisement once.
SearchConjunction == \A f \in Filters : SearchMeets(ads, f)

\* The same, for the stores in which every record is a valid advertisement
SearchConjunctionOfValid ==
    (\A i \in 1..Len(ads) : AdResponseValid(ads[i]))
        => \A f \in Filters : SearchMeets(ads, f)

----------------------------------------------------------------------------
\* Calls on the two stores.  The stores share no state, so a run works on
\* one of them: the one its first create chose.
NextStores ==
    \/ /\ nextAdId = 1
       /\ NextUsers
    \/ /\ nextUserId = 1
       /\ NextAds

SpecStores == Init /\ [][NextStores]_vars

\* What a partial update with payload data may change in record id of a store
OnlySupplied(before, after, id, data) ==
    /\ Len(after) = Len(before)
    /\ \A i \in 1..Len(before) :
        IF before[i].id = id
        THEN /\ DOMAIN after[i] = DOMAIN before[i]
             /\ after[i].id = before[i].id
             /\ after[i].created_at = before[i].created_at
             /\ \A k \in DOMAIN before[i] \ DOMAIN data :
                    after[i][k] = before[i][k]
        ELSE after[i] = before[i]

\* C5: a successful update of a live record, in either store, changes only
\* the fields its payload supplies: the other fields of the record, its id
\* and its created_at keep their values and every other record is unchanged.
PartialUpdatePure ==
    /\ \A id \in UserIds, data \in UserUpdates :
        LET r == UsersUpdate(users, id, data)
        IN r.result.kind = "ok" => OnlySupplied(users, r.store, id, data)
    /\ \A id \in AdIds, data \in AdUpdates :
        LET r == AdsUpdate(ads, id, data)
        IN r.result.kind = "ok" => OnlySupplied(ads, r.store, id, data)

\* C5 happens: a successful update of one of two live users, made after the
\* clock moved on from the record's creation
PartialUpdateSeen ==
    /\ last.op = "users.update"
    /\ last.result = "ok"
    /\ Len(users) = 2
    /\ \E i \in 1..Len(users) : users[i].created_at < now

Records(store) == {store[i] : i \in 1..Len(store)}

DeleteContract(store, id, r) ==
    IF Live(store, id)
    THEN /\ r.result = TRUE
         /\ Len(r.store) = Len(store) - 1
         /\ Records(r.store) = {rec \in Records(store) : rec.id # id}
    ELSE /\ r.result = FALSE
         /\ r.store = store

\* C8: in both stores delete(id) of an id that is not live returns false and
\* leaves the store as it is; delete(id) of a live id returns true and
\* removes exactly that record; get(id) of a deleted id is none ever after.
DeleteRemovesForGood ==
    /\ \A id \in UserIds : DeleteContract(users, id, UsersDelete(users, id))
    /\ \A id \in AdIds : DeleteContract(ads, id, AdsDelete(ads, id))
    /\ \A id \in goneUsers : UsersGetById(users, id).kind = "None"
    /\ \A id \in goneAds : AdsGetById(ads, id).kind = "None"

\* C8 happens: a user was deleted and a user was created after that
DeletedThenCreatedSeen ==
    /\ goneUsers # {}
    /\ \E i \in 1..Len(users) : \E g \in goneUsers : users[i].id > g

----------------------------------------------------------------------------
\* The token store (app/auth.py) and login (app/main.py)

LoginPasswords == Passwords \cup {"bad"}

\* users_storage.verify_password: the first record matching both fields
VerifyPassword(store, username, password) ==
    LET hits == {i \in 1..Len(store) :
                    /\ store[i].username = username
                    /\ store[i].password = password}
    IN IF hits = {} THEN Absent
       ELSE ToResponse(store[CHOOSE i \in hits : \A j \in hits : i <= j])

HasToken(toks, token) == \E e \in toks : e.token = token

TokenEntry(toks, token) == CHOOSE e \in toks : e.token = token

\* A faulty create_token: the token never expires within the model's time
CreateTokenNoExpiry(toks, token, user_id, t) ==
    toks \cup {[token |-> token, user_id |-> user_id,
                expires_at |-> t + TOKEN_TTL_HOURS + MaxTime]}

\* auth.create_token: the token store with the new entry
CreateToken(toks, token, user_id, t) ==
    toks \cup {[token |-> token, user_id |-> user_id,
                expires_at |-> t + TOKEN_TTL_HOURS]}

\* A faulty lookup: an expired entry is refused and left in the store
GetUserByTokenKeeps(toks, store, token, t) ==
    IF ~HasToken(toks, token)
    THEN [tokens |-> toks, result |-> Absent]
    ELSE LET data == TokenEntry(toks, token)
         IN IF data.expires_at < t
            THEN [tokens |-> toks, result |-> Absent]
            ELSE [tokens |-> toks,
                  result |-> UsersGetById(store, data.user_id)]

\* auth._get_user_by_token: [tokens, result]
GetUserByToken(toks, store, token, t) ==
    IF ~HasToken(toks, token)
    THEN [tokens |-> toks, result |-> Absent]
    ELSE LET data == TokenEntry(toks, token)
         IN IF data.expires_at < t
            THEN [tokens |-> toks \ {data}, result |-> Absent]
            ELSE [tokens |-> toks,
                  result |-> UsersGetById(store, data.user_id)]

notTokens == <<users, nextUserId, ads, nextAdId, goneUsers, goneAds,
               pc, frame>>

\* POST /login as a function: the token store it leaves and its answer,
\* 200 with the token, 401, or the exception verify_password raised
LoginRequest(toks, store, token, username, password, t) ==
    LET user == VerifyPassword(store, username, password)
    IN IF user.kind = "ok"
       THEN [tokens |-> CreateToken(toks, token, user.value.id, t),
             status |-> "ok", user_id |-> user.value.id]
       ELSE [tokens |-> toks,
             status |-> IF user.kind = "None" THEN "401" ELSE user.kind,
             user_id |-> 0]

\* POST /login
Login(username, password) ==
    /\ nextToken <= MaxTokens
    /\ LET r == LoginRequest(tokens, users, nextToken, username, password,
                             now)
       IN /\ tokens' = r.tokens
          /\ last' = [op |-> "login", result |-> r.status]
          /\ IF r.status = "ok"
             THEN /\ nextToken' = nextToken + 1
                  /\ issued' = Append(issued, [at |-> now,
                                               user_id |-> r.user_id,
                                               username |-> username])
             ELSE UNCHANGED <<nextToken, issued>>
    /\ UNCHANGED now
    /\ UNCHANGED notTokens

TokenValues == 1..MaxTokens

\* A request bearing a token: the lookup of its user
Resolve(token) ==
    /\ LET r == GetUserByToken(tokens, users, token, now)
       IN /\ tokens' = r.tokens
          /\ last' = [op |-> "resolve", token |-> token,
                      result |-> r.result.kind]
    /\ UNCHANGED <<nextToken, issued, now>>
    /\ UNCHANGED notTokens

ClockSteps == {24}

\* The users who log in: the group plays no part in the token store
PlainUserCreates == {user \in UserCreates : user.group = "user"}

NextTokens ==
    \/ \E dt \in ClockSteps : Tick(dt)
    \/ \E user \in PlainUserCreates : CallUsersCreate(user)
    \/ \E id \in UserIds : CallUsersDelete(id)
    \/ \E u \in Usernames, p \in LoginPasswords : Login(u, p)
    \/ \E token \in TokenValues : Resolve(token)

SpecTokens == Init /\ [][NextTokens]_vars

Issued == 1..Len(issued)

UserOf(token) == UsersGetById(users, issued[token].user_id)

ResolvesAt(token) == GetUserByToken(tokens, users, token, now).result

\* C3 as stated: a token issued at t to a user who still exists resolves to
\* that user at every time before t + 48h and never at or after t + 48h,
\* whatever was resolved or issued in between.
ExpiryWindowStrict ==
    \A token \in Issued :
        UserOf(token).kind = "ok" =>
            IF now < issued[token].at + TOKEN_TTL_HOURS
            THEN ResolvesAt(token) = UserOf(token)
            ELSE ResolvesAt(token).kind = "None"

\* C3 as the code has it: the token resolves to that user at every time up
\* to and including t + 48h and never after t + 48h.
ExpiryWindow ==
    \A token \in Issued :
        UserOf(token).kind = "ok" =>
            IF now <= issued[token].at + TOKEN_TTL_HOURS
            THEN ResolvesAt(token) = UserOf(token)
            ELSE ResolvesAt(token).kind = "None"

\* C3 happens: a token of a live user has just been refused after its
\* window, while a token issued later to the same user is still good
ExpiryWindowSeen ==
    /\ last.op = "resolve"
    /\ last.result = "None"
    /\ last.token \in Issued
    /\ UserOf(last.token).kind = "ok"
    /\ now > issued[last.token].at + TOKEN_TTL_HOURS
    /\ \E other \in Issued :
        /\ issued[other].user_id = issued[last.token].user_id
        /\ ResolvesAt(other).kind = "ok"

\* C4: the first lookup of a token after its expiry returns none and removes
\* the entry, and from then on the token is absent: a token whose lookup
\* found it expired is never in the store again.
ExpiredReaped ==
    [][\A token \in Issued :
        /\ (/\ HasToken(tokens, token)
            /\ TokenEntry(tokens, token).expires_at < now'
            /\ last'.op = "resolve" /\ last'.token = token
            /\ last' # last \/ tokens' # tokens)
             => (last'.result = "None" /\ ~HasToken(tokens', token))
        /\ (~HasToken(tokens, token) => ~HasToken(tokens', token))]_vars

\* C4 happens: an expired token has just been looked up and is gone
ExpiredReapedSeen ==
    /\ last.op = "resolve"
    /\ last.result = "None"
    /\ last.token \in Issued
    /\ now > issued[last.token].at + TOKEN_TTL_HOURS
    /\ ~HasToken(tokens, last.token)

----------------------------------------------------------------------------
\* Login against a user store that is also created, updated and deleted

\* UserUpdate payloads that set the password or the group
CredentialUpdates ==
    [password : Passwords \cup {None}] \cup [group : Groups \cup {None}]

NextLogin ==
    \/ \E user \in UserCreates : CallUsersCreate(user)
    \/ \E id \in UserIds, data \in CredentialUpdates :
            CallUsersUpdate(id, data)
    \/ \E id \in UserIds : CallUsersDelete(id)
    \/ \E u \in Usernames, p \in LoginPasswords : Login(u, p)
    \/ \E token \in TokenValues : Resolve(token)

SpecLogin == Init /\ [][NextLogin]_vars

Matches(username, password) ==
    \E i \in 1..Len(users) :
        users[i].username = username /\ users[i].password = password

LoginMeets(username, password) ==
    LET r == LoginRequest(tokens, users, nextToken, username, password, now)
    IN IF Matches(username, password)
       THEN /\ r.status = "ok"
            /\ LET user == GetUserByToken(r.tokens, users, nextToken,
                                          now).result
               IN /\ user.kind = "ok"
                  /\ user.value.username = username
                  /\ \E i \in 1..Len(users) :
                        /\ users[i].id = user.value.id
                        /\ users[i].password = password
       ELSE r.status = "401" /\ r.tokens = tokens

\* C11: a login issues a token if and only if some live user record matches
\* the presented username and password exactly; otherwise it is refused and
\* the token store is left as it was; the token issued resolves to the user
\* whose credentials were presented.
LoginIffMatch ==
    \A u \in Usernames, p \in LoginPasswords : LoginMeets(u, p)

\* C11 on a user store all of whose records are valid
LoginIffMatchOfValid ==
    (\A i \in 1..Len(users) : UserResponseValid(users[i]))
        => \A u \in Usernames, p \in LoginPasswords : LoginMeets(u, p)

\* Logins happen: one has just been refused while another token is held
LoginRefusedSeen ==
    /\ last.op = "login"
    /\ last.result = "401"
    /\ tokens # {}
    /\ Len(users) > 0

----------------------------------------------------------------------------
\* The request handlers (app/main.py), one request at a time.  A handler
\* gives the stores it leaves and the status it answers with.

\* The user store after POST /user for al and for the admin Bo
RegisteredUsers ==
    <<[id |-> 1, username |-> "al", password |-> "pw",
       group |-> "user", created_at |-> 0],
      [id |-> 2, username |-> "Bo", password |-> "pw",
       group |-> "admin", created_at |-> 0]>>

\* A faulty lookup of the caller: the user as registered, a copy taken when
\* the token was issued, not the record the store holds now
CurrentUserAsRegistered(toks, store, token, t) ==
    GetUserByToken(toks, RegisteredUsers, token, t)

\* auth.get_current_user: the caller of a request bearing token
CurrentUser(toks, store, token, t) == GetUserByToken(toks, store, token, t)

\* body: the records the response carries, <<>> when it carries none
Reply(toks, us, as, status, body) ==
    [tokens |-> toks, users |-> us, ads |-> as, status |-> status,
     body |-> body]

Answer(toks, us, as, status) == Reply(toks, us, as, status, <<>>)

Body(result) == IF result.kind = "ok" THEN <<result.value>> ELSE <<>>

\* The status of a request whose caller did not resolve
Unresolved(cu) == IF cu.result.kind = "None" THEN "401" ELSE "500"

\* A faulty test: the admin's bypass is missing
MayModifyAdOwnerOnly(user, ad) == user.username = ad.author

\* canModifyAdvertisement: main.py's test before update and delete
MayModifyAd(user, ad) ==
    ~(user.group # "admin" /\ user.username # ad.author)

\* A faulty test: "or" for "and", a user may not touch their own record
\* unless admin, and an admin may touch only other records
MayModifyUserOr(user, user_id) ==
    ~(user.group # "admin" \/ user.id # user_id)

\* canModifyUser: main.py's test before update and delete of a user
MayModifyUser(user, user_id) ==
    ~(user.group # "admin" /\ user.id # user_id)

\* canListUsers
MayListUsers(user) == ~(user.group # "admin")

\* PATCH /advertisement/{id}
UpdateAdvertisement(toks, us, as, token, id, data, t) ==
    LET cu == CurrentUser(toks, us, token, t)
        ad == AdsGetById(as, id)
    IN IF cu.result.kind # "ok" THEN Answer(cu.tokens, us, as, Unresolved(cu))
       ELSE IF ad.kind = "None" THEN Answer(cu.tokens, us, as, "404")
       ELSE IF ad.kind # "ok" THEN Answer(cu.tokens, us, as, "500")
       ELSE IF ~MayModifyAd(cu.result.value, ad.value)
       THEN Answer(cu.tokens, us, as, "403")
       ELSE LET r == AdsUpdate(as, id, data)
            IN Reply(cu.tokens, us, r.store,
                     IF r.result.kind = "ok" THEN "200" ELSE "500",
                     Body(r.result))

\* DELETE /advertisement/{id}
DeleteAdvertisement(toks, us, as, token, id, t) ==
    LET cu == CurrentUser(toks, us, token, t)
        ad == AdsGetById(as, id)
    IN IF cu.result.kind # "ok" THEN Answer(cu.tokens, us, as, Unresolved(cu))
       ELSE IF ad.kind = "None" THEN Answer(cu.tokens, us, as, "404")
       ELSE IF ad.kind # "ok" THEN Answer(cu.tokens, us, as, "500")
       ELSE IF ~MayModifyAd(cu.result.value, ad.value)
       THEN Answer(cu.tokens, us, as, "403")
       ELSE Answer(cu.tokens, us, AdsDelete(as, id).store, "204")

\* A faulty create_advertisement: the author is taken from the body
CreateAdvertisementAsSent(toks, us, as, token, id, ad, t) ==
    LET cu == CurrentUser(toks, us, token, t)
    IN IF cu.result.kind # "ok" THEN Answer(cu.tokens, us, as, Unresolved(cu))
       ELSE LET r == AdsCreate(as, id, ad, t)
            IN Reply(cu.tokens, us, r.store,
                     IF r.result.kind = "ok" THEN "200" ELSE "500",
                     Body(r.result))

\* POST /advertisement: the author is the caller's username
CreateAdvertisement(toks, us, as, token, id, ad, t) ==
    LET cu == CurrentUser(toks, us, token, t)
    IN IF cu.result.kind # "ok" THEN Answer(cu.tokens, us, as, Unresolved(cu))
       ELSE LET ad_with_author ==
                    [ad EXCEPT !.author = cu.result.value.username]
                r == AdsCreate(as, id, ad_with_author, t)
            IN Reply(cu.tokens, us, r.store,
                     IF r.result.kind = "ok" THEN "200" ELSE "500",
                     Body(r.result))

\* POST /user: no caller needed
CreateUser(toks, us, as, id, user, t) ==
    LET r == UsersCreate(us, id, user, t)
    IN Reply(toks, r.store, as,
             IF r.result.kind = "ok" THEN "200"
             ELSE IF r.result.kind = "ValueError" THEN "400" ELSE "500",
             Body(r.result))

\* GET /user
ListUsers(toks, us, as, token, t) ==
    LET cu == CurrentUser(toks, us, token, t)
    IN IF cu.result.kind # "ok" THEN Answer(cu.tokens, us, as, Unresolved(cu))
       ELSE IF ~MayListUsers(cu.result.value)
       THEN Answer(cu.tokens, us, as, "403")
       ELSE LET r == UsersList(us)
            IN Reply(cu.tokens, us, as,
                     IF r.kind = "ok" THEN "200" ELSE "500",
                     IF r.kind = "ok" THEN r.value ELSE <<>>)

\* PATCH /user/{id}
UpdateUser(toks, us, as, token, id, data, t) ==
    LET cu == CurrentUser(toks, us, token, t)
    IN IF cu.result.kind # "ok" THEN Answer(cu.tokens, us, as, Unresolved(cu))
       ELSE IF ~MayModifyUser(cu.result.value, id)
       THEN Answer(cu.tokens, us, as, "403")
       ELSE LET r == UsersUpdate(us, id, data)
            IN Reply(cu.tokens, r.store, as,
                     CASE r.result.kind = "ok" -> "200"
                       [] r.result.kind = "ValueError" -> "400"
                       [] r.result.kind = "None" -> "404"
                       [] OTHER -> "500",
                     Body(r.result))

\* A faulty delete_user: the deletion cascades to the user's tokens and to
\* the advertisements under the user's username
DeleteUserCascading(toks, us, as, token, id, t) ==
    LET cu == CurrentUser(toks, us, token, t)
    IN IF cu.result.kind # "ok" THEN Answer(cu.tokens, us, as, Unresolved(cu))
       ELSE IF ~MayModifyUser(cu.result.value, id)
       THEN Answer(cu.tokens, us, as, "403")
       ELSE LET r == UsersDelete(us, id)
                name == IF Live(us, id) THEN us[Index(us, id)].username
                        ELSE None
            IN Answer({e \in cu.tokens : e.user_id # id}, r.store,
                      SelectSeq(as, LAMBDA ad : ad.author # name),
                      IF r.result THEN "204" ELSE "404")

\* DELETE /user/{id}
DeleteUser(toks, us, as, token, id, t) ==
    LET cu == CurrentUser(toks, us, token, t)
    IN IF cu.result.kind # "ok" THEN Answer(cu.tokens, us, as, Unresolved(cu))
       ELSE IF ~MayModifyUser(cu.result.value, id)
       THEN Answer(cu.tokens, us, as, "403")
       ELSE LET r == UsersDelete(us, id)
            IN Answer(cu.tokens, r.store, as,
                      IF r.result THEN "204" ELSE "404")

\* A request is answered: the stores take the handler's values
Answered(op, a) ==
    /\ tokens' = a.tokens
    /\ users' = a.users
    /\ ads' = a.ads
    /\ goneUsers' = goneUsers \cup
            {users[i].id : i \in {j \in 1..Len(users) :
                                    ~Live(a.users, users[j].id)}}
    /\ goneAds' = goneAds \cup
            {ads[i].id : i \in {j \in 1..Len(ads) : ~Live(a.ads, ads[j].id)}}
    /\ last' = [op |-> op, result |-> a.status]
    /\ UNCHANGED <<nextToken, issued, now, pc, frame>>

ReqCreateUser(user) ==
    /\ nextUserId <= MaxUsers
    /\ LET a == CreateUser(tokens, users, ads, nextUserId, user, now)
       IN /\ Answered("create_user", a)
          /\ nextUserId' = IF a.status = "400" THEN nextUserId
                           ELSE nextUserId + 1
    /\ UNCHANGED nextAdId

ReqListUsers(token) ==
    /\ Answered("list_users", ListUsers(tokens, users, ads, token, now))
    /\ UNCHANGED <<nextUserId, nextAdId>>

ReqUpdateUser(token, id, data) ==
    /\ Answered("update_user",
                UpdateUser(tokens, users, ads, token, id, data, now))
    /\ UNCHANGED <<nextUserId, nextAdId>>

ReqDeleteUser(token, id) ==
    /\ Answered("delete_user",
                DeleteUser(tokens, users, ads, token, id, now))
    /\ UNCHANGED <<nextUserId, nextAdId>>

ReqCreateAdvertisement(token, ad) ==
    /\ nextAdId <= MaxAds + 1
    /\ LET a == CreateAdvertisement(tokens, users, ads, token, nextAdId,
                                    ad, now)
       IN /\ Answered("create_advertisement", a)
          /\ nextAdId' = IF a.status \in {"200", "500"} /\ a.ads # ads
                         THEN nextAdId + 1 ELSE nextAdId
    /\ UNCHANGED nextUserId

ReqUpdateAdvertisement(token, id, data) ==
    /\ Answered("update_advertisement",
                UpdateAdvertisement(tokens, users, ads, token, id, data, now))
    /\ UNCHANGED <<nextUserId, nextAdId>>

ReqDeleteAdvertisement(token, id) ==
    /\ Answered("delete_advertisement",
                DeleteAdvertisement(tokens, users, ads, token, id, now))
    /\ UNCHANGED <<nextUserId, nextAdId>>

\* Two users, al and the admin Bo, are registered and logged in, and al has
\* posted an advertisement: the state after POST /user twice, POST /login
\* twice and POST /advertisement
InitApi ==
    /\ users = RegisteredUsers
    /\ nextUserId = 3
    /\ ads = <<[id |-> 1, title |-> "Bike", description |-> "old",
                price |-> 1, author |-> "al", created_at |-> 0]>>
    /\ nextAdId = 2
    /\ tokens = {[token |-> 1, user_id |-> 1,
                  expires_at |-> TOKEN_TTL_HOURS],
                 [token |-> 2, user_id |-> 2,
                  expires_at |-> TOKEN_TTL_HOURS]}
    /\ nextToken = 3
    /\ now = 0
    /\ goneUsers = {}
    /\ goneAds = {}
    /\ issued = <<[at |-> 0, user_id |-> 1, username |-> "al"],
                  [at |-> 0, user_id |-> 2, username |-> "Bo"]>>
    /\ last = [op |-> "init"]
    /\ pc = [t \in Threads |-> "idle"]
    /\ frame = [t \in Threads |-> Idle]

\* The tokens a request may bear: the two issued and one never issued
Bearers == {1, 2, 3}

\* The ids a request may name: the two users and an id of no user
ApiUserIds == {1, 2, 3}

\* The advertisement and an id of no advertisement
ApiAdIds == {1, 2}

\* Payloads that set at most one field
ApiAdUpdates == {d \in AdUpdates : Cardinality(DOMAIN d) <= 1}

\* Payloads that set the username or the group, or nothing
RoleOrNameUpdates ==
    {d \in UserUpdates :
        DOMAIN d \subseteq {"username", "group"} /\ Cardinality(DOMAIN d) <= 1}

\* Requests about users
NextApiUsers ==
    \/ Tick(MaxTime)
    \/ \E token \in Bearers : ReqListUsers(token)
    \/ \E token \in Bearers, id \in ApiUserIds, data \in UserUpdates :
            ReqUpdateUser(token, id, data)
    \/ \E token \in Bearers, id \in ApiUserIds : ReqDeleteUser(token, id)

SpecApiUsers == InitApi /\ [][NextApiUsers]_vars

\* Requests about the advertisement, among renames and changes of role
NextApiAds ==
    \/ Tick(MaxTime)
    \/ \E token \in Bearers, id \in ApiUserIds, data \in RoleOrNameUpdates :
            ReqUpdateUser(token, id, data)
    \/ \E token \in Bearers, id \in ApiAdIds, data \in ApiAdUpdates :
            ReqUpdateAdvertisement(token, id, data)
    \/ \E token \in Bearers, id \in ApiAdIds :
            ReqDeleteAdvertisement(token, id)

SpecApiAds == InitApi /\ [][NextApiAds]_vars

\* The caller a token resolves to now
Caller(token) == CurrentUser(tokens, users, token, now).result

\* C9: an update or delete request on an existing advertisement, by a
\* resolved caller, is allowed (carried out on the store) if and only if the
\* caller's role is admin or the caller's username is the advertisement's
\* author; a denied request (403) leaves the advertisement store unchanged.
\* Existing: get_by_id returns the advertisement, as the handlers test it.
AdAuthorization ==
    \A token \in Bearers, id \in ApiAdIds :
        (Caller(token).kind = "ok" /\ AdsGetById(ads, id).kind = "ok") =>
            LET user == Caller(token).value
                ad == AdsGetById(ads, id).value
                allowed == user.group = "admin" \/ user.username = ad.author
                del == DeleteAdvertisement(tokens, users, ads, token, id, now)
            IN /\ \A data \in ApiAdUpdates :
                    LET upd == UpdateAdvertisement(tokens, users, ads, token,
                                                   id, data, now)
                    IN IF allowed
                       THEN /\ upd.status # "403"
                            /\ upd.ads = AdsUpdate(ads, id, data).store
                       ELSE /\ upd.status = "403"
                            /\ upd.ads = ads
               /\ IF allowed
                  THEN del.status = "204" /\ ~Live(del.ads, id)
                  ELSE del.status = "403" /\ del.ads = ads

\* C9 happens: an update of the advertisement has just been denied, and the
\* advertisement is there as it was posted
AdDeniedSeen ==
    /\ last.op = "update_advertisement"
    /\ last.result = "403"
    /\ AdsGetById(ads, 1).kind = "ok"

\* C10: an update or delete request on a user, by a resolved caller, is
\* allowed if and only if the caller's role is admin or the caller's id is
\* the target's; a list request if and only if the role is admin; a denied
\* request (403) leaves the user store unchanged and carries no user data.
UserAuthorization ==
    \A token \in Bearers :
        Caller(token).kind = "ok" =>
            LET user == Caller(token).value
                lst == ListUsers(tokens, users, ads, token, now)
            IN /\ \A id \in ApiUserIds :
                    LET allowed == user.group = "admin" \/ user.id = id
                        del == DeleteUser(tokens, users, ads, token, id, now)
                    IN /\ \A data \in UserUpdates :
                            LET upd == UpdateUser(tokens, users, ads, token,
                                                  id, data, now)
                            IN IF allowed
                               THEN /\ upd.status # "403"
                                    /\ upd.users =
                                         UsersUpdate(users, id, data).store
                               ELSE /\ upd.status = "403"
                                    /\ upd.users = users
                                    /\ upd.body = <<>>
                       /\ IF allowed
                          THEN /\ del.status # "403"
                               /\ ~Live(del.users, id)
                          ELSE /\ del.status = "403"
                               /\ del.users = users
                               /\ del.body = <<>>
               /\ IF user.group = "admin"
                  THEN lst.status # "403"
                  ELSE lst.status = "403" /\ lst.body = <<>>
               /\ lst.users = users

\* C10 happens: a user's request to delete another user has just been
\* denied, and both users are still there
UserDeniedSeen ==
    /\ last.op = "delete_user"
    /\ last.result = "403"
    /\ Len(users) = 2

----------------------------------------------------------------------------
\* Requests on the user store served by concurrent threads (the handlers are
\* plain def functions, which FastAPI runs in a thread pool).  The store
\* takes no lock: a thread may be preempted between the scan for the
\* username and the write.

RenameUpdates == [username : Usernames]

notConc == <<ads, nextAdId, tokens, nextToken, goneAds, issued, now>>

\* create, lines 23-24: the scan; the thread goes on to insert or raises
CreateScan(t, user) ==
    /\ pc[t] = "idle"
    /\ nextUserId + Cardinality({u \in Threads : pc[u] = "insert"})
         <= MaxUsers
    /\ IF UsernameTaken(users, user.username)
       THEN /\ last' = [op |-> "users.create", result |-> "ValueError"]
            /\ UNCHANGED <<pc, frame>>
       ELSE /\ pc' = [pc EXCEPT ![t] = "insert"]
            /\ frame' = [frame EXCEPT ![t] = [at |-> "insert", user |-> user]]
            /\ UNCHANGED last
    /\ UNCHANGED <<users, nextUserId, goneUsers>>
    /\ UNCHANGED notConc

\* create, lines 25-35: the new id, the record, the insertion
CreateInsert(t) ==
    /\ pc[t] = "insert"
    /\ LET user == frame[t].user
           record == [id |-> nextUserId, username |-> user.username,
                      password |-> user.password, group |-> user.group,
                      created_at |-> now]
       IN /\ users' = Append(users, record)
          /\ last' = [op |-> "users.create",
                      result |-> ToResponse(record).kind]
    /\ nextUserId' = nextUserId + 1
    /\ pc' = [pc EXCEPT ![t] = "idle"]
    /\ frame' = [frame EXCEPT ![t] = Idle]
    /\ UNCHANGED goneUsers
    /\ UNCHANGED notConc

\* update, lines 55-65: the lookup and the scan
UpdateScan(t, id, data) ==
    /\ pc[t] = "idle"
    /\ IF ~Live(users, id)
       THEN /\ last' = [op |-> "users.update", result |-> "None"]
            /\ UNCHANGED <<pc, frame>>
       ELSE IF UpdateCollides(users, id, data)
       THEN /\ last' = [op |-> "users.update", result |-> "ValueError"]
            /\ UNCHANGED <<pc, frame>>
       ELSE /\ pc' = [pc EXCEPT ![t] = "write"]
            /\ frame' = [frame EXCEPT
                            ![t] = [at |-> "write", id |-> id, data |-> data]]
            /\ UNCHANGED last
    /\ UNCHANGED <<users, nextUserId, goneUsers>>
    /\ UNCHANGED notConc

\* update, lines 66-67: record.update(update_data) on the dict looked up
\* before; if the record was deleted meanwhile the store does not see it
UpdateWrite(t) ==
    /\ pc[t] = "write"
    /\ LET id == frame[t].id
           i == Index(users, id)
       IN IF i = 0
          THEN /\ UNCHANGED users
               /\ last' = [op |-> "users.update", result |-> "ok"]
          ELSE LET record == DictUpdate(users[i], frame[t].data)
               IN /\ users' = [users EXCEPT ![i] = record]
                  /\ last' = [op |-> "users.update",
                              result |-> ToResponse(record).kind]
    /\ pc' = [pc EXCEPT ![t] = "idle"]
    /\ frame' = [frame EXCEPT ![t] = Idle]
    /\ UNCHANGED <<nextUserId, goneUsers>>
    /\ UNCHANGED notConc

\* delete, lines 72-75
DeleteNow(t, id) ==
    /\ pc[t] = "idle"
    /\ CallUsersDelete(id)

NextConc ==
    \/ \E t \in Threads, user \in UserCreates : CreateScan(t, user)
    \/ \E t \in Threads : CreateInsert(t)
    \/ \E t \in Threads, id \in UserIds, data \in RenameUpdates :
            UpdateScan(t, id, data)
    \/ \E t \in Threads : UpdateWrite(t)
    \/ \E t \in Threads, id \in UserIds : DeleteNow(t, id)

SpecConc == Init /\ [][NextConc]_vars

\* C2: under concurrent requests the scan for the username and the write
\* that follows it are one atomic unit, so that of interleaved creates and
\* renames to one username at most one succeeds: no state has two live
\* users with the same username.  (No payload of this specification carries
\* a null, every username in the store is a string.)
NoDuplicateUnderRaces ==
    \A i, j \in 1..Len(users) :
        (i < j /\ users[i].username \in Usernames)
            => users[i].username # users[j].username

----------------------------------------------------------------------------
\* Tokens of deleted users

\* What the handlers that need a caller answer to a request bearing token
AnswersTo(token) ==
    {ListUsers(tokens, users, ads, token, now)}
    \cup {UpdateUser(tokens, users, ads, token, id, [group |-> "admin"], now) :
            id \in UserIds}
    \cup {DeleteUser(tokens, users, ads, token, id, now) : id \in UserIds}
    \cup {CreateAdvertisement(tokens, users, ads, token, nextAdId, ad, now) :
            ad \in AdCreates}
    \cup {DeleteAdvertisement(tokens, users, ads, token, id, now) :
            id \in AdIds}

\* C12: once a user is deleted, no token issued to that user's id yields an
\* authenticated identity in any later state: its lookup returns none and
\* every request bearing it that needs a caller is answered 401 and changes
\* no store, also when a new user has taken the same username and while the
\* token entry is still in the token store.
DeletedUserRejected ==
    \A token \in Issued :
        issued[token].user_id \in goneUsers =>
            /\ ResolvesAt(token) = Absent
            /\ \A a \in AnswersTo(token) :
                    /\ a.status = "401"
                    /\ a.users = users
                    /\ a.ads = ads

\* C12 happens: the token of a deleted user, still in the token store, has
\* just been refused while a new user holds the deleted user's username
DeletedUserRejectedSeen ==
    /\ last.op = "resolve"
    /\ last.result = "None"
    /\ last.token \in Issued
    /\ issued[last.token].user_id \in goneUsers
    /\ HasToken(tokens, last.token)
    /\ \E i \in 1..Len(users) :
            /\ users[i].username = issued[last.token].username
            /\ UserResponseValid(users[i])

----------------------------------------------------------------------------
\* C13: after any sequence of creates and updates whose payloads the request
\* schemas accept (an update field unset, null or valid), every live user
\* has a non-empty string username and a group of user or admin, every live
\* advertisement a non-empty title, a non-empty author and a price of at
\* least 0, and get, list and search on the stores succeed.
RecordsStayValid ==
    /\ \A i \in 1..Len(users) :
            /\ users[i].username \notin {None, ""}
            /\ users[i].group \in Groups
            /\ UsersGetById(users, users[i].id).kind = "ok"
    /\ UsersList(users).kind = "ok"
    /\ \A i \in 1..Len(ads) :
            /\ ads[i].title \notin {None, ""}
            /\ ads[i].author \notin {None, ""}
            /\ ads[i].price # NonePrice /\ ads[i].price >= 0
            /\ AdsGetById(ads, ads[i].id).kind = "ok"
    /\ AdsSearch(ads, NoFilter).kind = "ok"

----------------------------------------------------------------------------
\* Requests on the advertisement served by concurrent threads.  The handlers
\* take no lock: between the ownership test (main.py lines 150-157, 168-175)
\* and the call that changes the store (lines 158, 176) another thread may
\* run.

\* Payloads that reassign the author or change the price
AuthorOrPriceUpdates == [author : Authors] \cup [price : Prices]

notConcAds == <<users, nextUserId, nextAdId, nextToken, goneUsers, issued,
                now>>

\* update_advertisement and delete_advertisement up to the ownership test:
\* the caller, the advertisement, the test; op is "write" or "remove"
AdCheck(t, op, token, id, data) ==
    /\ pc[t] = "idle"
    /\ LET cu == CurrentUser(tokens, users, token, now)
           ad == AdsGetById(ads, id)
           refused ==
               IF cu.result.kind # "ok" THEN Unresolved(cu)
               ELSE IF ad.kind = "None" THEN "404"
               ELSE IF ad.kind # "ok" THEN "500"
               ELSE IF ~MayModifyAd(cu.result.value, ad.value) THEN "403"
               ELSE "no"
       IN /\ tokens' = cu.tokens
          /\ IF refused # "no"
             THEN /\ last' = [op |-> op, result |-> refused]
                  /\ UNCHANGED <<pc, frame>>
             ELSE /\ pc' = [pc EXCEPT ![t] = op]
                  /\ frame' = [frame EXCEPT
                                  ![t] = [at |-> op, caller |-> cu.result.value,
                                          id |-> id, data |-> data]]
                  /\ UNCHANGED last
    /\ UNCHANGED <<ads, goneAds>>
    /\ UNCHANGED notConcAds

\* update_advertisement, lines 158-159: storage.update and the response; a
\* None returned under response_model=AdvertisementResponse fails the
\* response validation, which FastAPI answers with 500
AdWrite(t) ==
    /\ pc[t] = "write"
    /\ LET r == AdsUpdate(ads, frame[t].id, frame[t].data)
       IN /\ ads' = r.store
          /\ last' = [op |-> "write",
                      result |-> IF r.result.kind = "ok" THEN "200"
                                 ELSE "500"]
    /\ pc' = [pc EXCEPT ![t] = "idle"]
    /\ frame' = [frame EXCEPT ![t] = Idle]
    /\ UNCHANGED <<tokens, goneAds>>
    /\ UNCHANGED notConcAds

\* delete_advertisement, line 176: storage.delete, its result ignored
AdRemove(t) ==
    /\ pc[t] = "remove"
    /\ LET r == AdsDelete(ads, frame[t].id)
       IN /\ ads' = r.store
          /\ goneAds' = IF r.result THEN goneAds \cup {frame[t].id}
                        ELSE goneAds
    /\ last' = [op |-> "remove", result |-> "204"]
    /\ pc' = [pc EXCEPT ![t] = "idle"]
    /\ frame' = [frame EXCEPT ![t] = Idle]
    /\ UNCHANGED tokens
    /\ UNCHANGED notConcAds

NextConcAds ==
    \/ \E t \in Threads, token \in Bearers, id \in ApiAdIds,
          data \in AuthorOrPriceUpdates : AdCheck(t, "write", token, id, data)
    \/ \E t \in Threads, token \in Bearers, id \in ApiAdIds :
            AdCheck(t, "remove", token, id, <<>>)
    \/ \E t \in Threads : AdWrite(t)
    \/ \E t \in Threads : AdRemove(t)

SpecConcAds == InitApi /\ [][NextConcAds]_vars

\* The username the user store holds for the caller now
UsernameNow(caller) == users[Index(users, caller.id)].username

\* C14: under concurrent requests, an update or delete of an advertisement
\* by a caller who is not admin takes effect only on an advertisement whose
\* author is the caller's username at the moment the change is applied.
OwnerWhenApplied ==
    [][\A t \in Threads :
        (/\ pc[t] \in {"write", "remove"}
         /\ pc'[t] = "idle"
         /\ ads' # ads
         /\ frame[t].caller.group # "admin")
            => /\ Live(ads, frame[t].id)
               /\ Live(users, frame[t].caller.id)
               /\ ads[Index(ads, frame[t].id)].author
                    = UsernameNow(frame[t].caller)]_vars

\* C15: under concurrent requests, an authorized update of an advertisement
\* that races with a delete of it ends with the updated advertisement (200)
\* or with not-found (404), never with another failure and never with an
\* absent result reported as success.
UpdateEndsNormally ==
    [][\A t \in Threads :
        (pc[t] = "write" /\ pc'[t] = "idle")
            => last'.result \in {"200", "404"}]_vars

----------------------------------------------------------------------------
\* What the handlers decide for the caller user, as the store holds it now
DecidedBy(token, user) ==
    /\ ListUsers(tokens, users, ads, token, now).status = "403"
            <=> user.group # "admin"
    /\ \A id \in ApiUserIds :
            DeleteUser(tokens, users, ads, token, id, now).status = "403"
                <=> (user.group # "admin" /\ user.id # id)
    /\ \A i \in 1..Len(ads) :
            AdResponseValid(ads[i]) =>
                (DeleteAdvertisement(tokens, users, ads, token, ads[i].id,
                                     now).status = "403"
                    <=> (user.group # "admin"
                         /\ user.username # ads[i].author))

\* C16: a token carries the user id only: every lookup of an unexpired token
\* gives the username and the group the user store holds for that id at
\* that time, and these, not the ones at issue, decide what later requests
\* bearing the token may do.
TokenFollowsStore ==
    \A e \in tokens :
        (e.expires_at >= now /\ Live(users, e.user_id)
         /\ UserResponseValid(users[Index(users, e.user_id)]))
            => LET cu == CurrentUser(tokens, users, e.token, now).result
                   user == users[Index(users, e.user_id)]
               IN /\ cu.kind = "ok"
                  /\ cu.value.id = user.id
                  /\ cu.value.username = user.username
                  /\ cu.value.group = user.group
                  /\ DecidedBy(e.token, user)

\* C16 happens: the admin, demoted to user after the token was issued and
\* the only user left, has just been refused the list of users
DemotedRefusedSeen ==
    /\ last.op = "list_users"
    /\ last.result = "403"
    /\ now <= TOKEN_TTL_HOURS
    /\ Len(users) = 1
    /\ users[1].id = 2
    /\ users[1].group = "user"

----------------------------------------------------------------------------
\* The token store after a request bearing token: as it was, or without the
\* entry of that token when the entry had expired
OnlyReaped(toks, token) ==
    \/ toks = tokens
    \/ /\ HasToken(tokens, token)
       /\ TokenEntry(tokens, token).expires_at < now
       /\ toks = tokens \ {TokenEntry(tokens, token)}

\* C17: no operation on the user store (create, update with rename or new
\* password, delete) changes an advertisement or a token entry, no operation
\* on the advertisement store changes the user store or the token store, and
\* the token store changes only when a token is issued and when an expired
\* token is looked up.
NoCascade ==
    /\ \A token \in Bearers, id \in ApiUserIds, data \in UserUpdates :
            LET a == UpdateUser(tokens, users, ads, token, id, data, now)
            IN a.ads = ads /\ OnlyReaped(a.tokens, token)
    /\ \A token \in Bearers, id \in ApiUserIds :
            LET a == DeleteUser(tokens, users, ads, token, id, now)
            IN a.ads = ads /\ OnlyReaped(a.tokens, token)
    /\ \A user \in UserCreates :
            LET a == CreateUser(tokens, users, ads, nextUserId, user, now)
            IN a.ads = ads /\ a.tokens = tokens
    /\ \A token \in Bearers :
            LET a == ListUsers(tokens, users, ads, token, now)
            IN a.ads = ads /\ a.users = users /\ OnlyReaped(a.tokens, token)
    /\ \A token \in Bearers, id \in ApiAdIds, data \in AdUpdates :
            LET a == UpdateAdvertisement(tokens, users, ads, token, id, data,
                                         now)
            IN a.users = users /\ OnlyReaped(a.tokens, token)
    /\ \A token \in Bearers, id \in ApiAdIds :
            LET a == DeleteAdvertisement(tokens, users, ads, token, id, now)
            IN a.users = users /\ OnlyReaped(a.tokens, token)
    /\ \A token \in Bearers, ad \in AdCreates :
            LET a == CreateAdvertisement(tokens, users, ads, token, nextAdId,
                                         ad, now)
            IN a.users = users /\ OnlyReaped(a.tokens, token)
    /\ \A u \in Usernames, p \in LoginPasswords :
            LET r == LoginRequest(tokens, users, nextToken, u, p, now)
            IN \/ r.tokens = tokens
               \/ /\ r.status = "ok"
                  /\ r.tokens = tokens \cup
                        {[token |-> nextToken, user_id |-> r.user_id,
                          expires_at |-> now + TOKEN_TTL_HOURS]}

\* C17 happens: a user has just been deleted, and the user's token entry
\* and the advertisement under the user's username are still there
DeletedWithoutCascadeSeen ==
    /\ last.op = "delete_user"
    /\ last.result = "204"
    /\ ~Live(users, 1)
    /\ HasToken(tokens, 1)
    /\ \E i \in 1..Len(ads) : ads[i].author = "al"

----------------------------------------------------------------------------
Ascending(seq) ==
    \A i, j \in 1..Len(seq) : i < j => seq[i].created_at <= seq[j].created_at

Descending(seq) ==
    \A i, j \in 1..Len(seq) : i < j => seq[i].created_at >= seq[j].created_at

ListOrdered ==
    LET r == UsersList(users)
    IN /\ r.kind = "ok"
       /\ Len(r.value) = Len(users)
       /\ \A i \in 1..Len(users) :
            \E j \in 1..Len(r.value) : r.value[j].id = users[i].id
       /\ Ascending(r.value)

SearchOrdered ==
    \A f \in Filters :
        LET r == AdsSearch(ads, f)
        IN r.kind = "ok" /\ Descending(r.value)

\* C18: for every store content that creates, updates and deletes can
\* reach, list returns all live users in ascending order of created_at and
\* search returns its matches in descending order of created_at.
ResultsOrdered == ListOrdered /\ SearchOrdered

\* The same, for the stores in which every record is valid
ResultsOrderedOfValid ==
    /\ (\A i \in 1..Len(users) : UserResponseValid(users[i])) => ListOrdered
    /\ (\A i \in 1..Len(ads) : AdResponseValid(ads[i])) => SearchOrdered

----------------------------------------------------------------------------
\* Advertisements posted by the registered users, among renames, changes of
\* role and deletions of users
NextApiCreate ==
    \/ Tick(MaxTime)
    \/ \E token \in Bearers, ad \in AdCreates :
            ReqCreateAdvertisement(token, ad)
    \/ \E token \in Bearers, id \in ApiUserIds, data \in RoleOrNameUpdates :
            ReqUpdateUser(token, id, data)
    \/ \E token \in Bearers, id \in ApiUserIds : ReqDeleteUser(token, id)

SpecApiCreate == InitApi /\ [][NextApiCreate]_vars

\* C19: an advertisement created by the create-advertisement request has as
\* author the username the user store holds for the authenticated caller at
\* that time, whatever author the body supplies, and a request whose caller
\* does not resolve creates no advertisement.
AuthorIsCaller ==
    \A token \in Bearers, ad \in AdCreates :
        LET a == CreateAdvertisement(tokens, users, ads, token, nextAdId, ad,
                                     now)
            cu == Caller(token)
        IN IF cu.kind = "ok"
           THEN /\ Len(a.ads) = Len(ads) + 1
                /\ SubSeq(a.ads, 1, Len(ads)) = ads
                /\ LET new == a.ads[Len(a.ads)]
                   IN /\ new.author = UsernameNow(cu.value)
                      /\ new.title = ad.title
                      /\ new.description = ad.description
                      /\ new.price = ad.price
           ELSE a.ads = ads /\ a.status \in {"401", "500"}

\* C19 happens: the admin, the only user left and renamed since
\* registration, has just posted an advertisement, which bears the new name
PostedUnderNewNameSeen ==
    /\ last.op = "create_advertisement"
    /\ last.result = "200"
    /\ Len(users) = 1
    /\ users[1].id = 2
    /\ users[1].username = "al"
    /\ Len(ads) > 0
    /\ ads[Len(ads)].id = nextAdId - 1
    /\ ads[Len(ads)].id > 1
    /\ ads[Len(ads)].author = "al"

----------------------------------------------------------------------------
\* The service from its start: registration, login, and requests on users
NextApiOpen ==
    \/ \E user \in UserCreates : ReqCreateUser(user)
    \/ \E u \in Usernames, p \in LoginPasswords : Login(u, p)
    \/ \E token \in TokenValues, id \in UserIds, data \in RoleOrNameUpdates :
            ReqUpdateUser(token, id, data)
    \/ \E token \in TokenValues, id \in UserIds : ReqDeleteUser(token, id)

SpecApiOpen == Init /\ [][NextApiOpen]_vars

HasAdmin(store) == \E i \in 1..Len(store) : store[i].group = "admin"

\* C20: starting from a store with no admin, no sequence of requests made by
\* unauthenticated callers and by callers whose group is user leaves a live
\* user record with group admin: while no admin exists, none arises.
NoAdminArises == ~HasAdmin(users)

\* The same for update-user requests alone: one made while the store holds
\* no admin leaves none
NoAdminByUpdate ==
    [][(last'.op = "update_user" /\ last' # last /\ ~HasAdmin(users))
            => ~HasAdmin(users')]_vars

====
